---------------------------- MODULE Spec2Model ----------------------------
(***************************************************************************)
(* Model of sdziobak/PasswordHashing: the hashing core of src/auth.py      *)
(* (Auth.get_hashed_password, Auth.attemptLogin, Auth.create_user) and the *)
(* interactive loop of src/main.py.                                        *)
(*                                                                         *)
(* Data representation                                                     *)
(*   str (password)  : sequence of Unicode code points                     *)
(*   str (hex, menu) : sequence of one-character strings                   *)
(*   bytes           : sequence of integers 0..255                         *)
(*   Optional[x]     : [some |-> BOOLEAN, val |-> x]                       *)
(*                                                                         *)
(* The cryptographic primitives are modelled as ideal (injective) hashes:  *)
(* the digest is a tag byte followed by the message the primitive reads.   *)
(* What the primitive reads is taken from the call in the source: md5 and  *)
(* sha512 read the concatenation salt + password, the KDFs read the salt   *)
(* and the password as two separate arguments.                             *)
(***************************************************************************)
EXTENDS Integers, Sequences, FiniteSets, TLC

VARIABLES
  h_password,   \* SpecHash: the password argument of get_hashed_password
  h_salt,       \* SpecHash: the salt argument (Optional hex string)
  h_alg,        \* SpecHash: the hashing_algorithm argument
  h_first,      \* SpecHash: result of the first call with these arguments
  h_second,     \* SpecHash: result of the second call with these arguments
  h_login,      \* SpecHash: result of attemptLogin on the first call's record
  db,           \* the user table: username -> stored User row or NoUser
  pc,           \* main(): the input() call the process is blocked in
  username,     \* main(): local variable username
  password,     \* main(): local variable password
  found_user,   \* main(): local variable found_user
  choice,       \* get_algorithm_user_choice(): local variable choice
  ret           \* the outcome of the last operation

hvars == <<h_password, h_salt, h_alg, h_first, h_second, h_login>>
svars == <<db, pc, username, password, found_user, choice, ret>>
vars == <<h_password, h_salt, h_alg, h_first, h_second, h_login,
          db, pc, username, password, found_user, choice, ret>>

----------------------------------------------------------------------------
(* Bounds *)

\* longest password entered, in code points
MaxPwLen == 1
\* longest hex string passed as an explicit salt, in characters
MaxSaltStr == 2
\* length of a generated salt in bytes (os.urandom(16) scaled down)
SaltLen == 2
\* longest menu choice typed, in characters
MaxChoiceLen == 2

\* code points a password is built from: "a", e-acute (two UTF-8 bytes),
\* and the lone surrogate U+DC80 (not encodable as UTF-8)
PwChars == {97, 233, 56448}
\* characters an explicit salt string is built from
SaltChars == {"0", "a", "A", "g", " "}
\* byte values a generated salt is built from
SaltBytes == {10, 240}
\* characters a menu choice is built from ("2s" stands for SUPERSCRIPT TWO)
ChoiceChars == {"0", "3", "7", "2s", "x"}

SeqUpTo(S, n) == UNION {[1..k -> S] : k \in 0..n}

Passwords == SeqUpTo(PwChars, MaxPwLen)
FreshSalts == [1..SaltLen -> SaltBytes]
Choices == SeqUpTo(ChoiceChars, MaxChoiceLen)
Usernames == {"alice"}

----------------------------------------------------------------------------
(* Optional values *)

None == [some |-> FALSE, val |-> <<>>]
Some(x) == [some |-> TRUE, val |-> x]

\* Python truthiness of an Optional[str] / Optional[bytes]: `if x:`
Truthy(x) == x.some /\ Len(x.val) > 0

----------------------------------------------------------------------------
(* HashingAlgorithm: the enumeration of hashing_algorithm.py *)

AlgNames == {"MD5", "SHA512", "PBKDF2", "ARGON2", "BCRYPT", "SCRYPT"}

AlgByValue == <<"MD5", "SHA512", "PBKDF2", "ARGON2", "BCRYPT", "SCRYPT">>

\* a value that is no member of the enumeration
NotAnAlgorithm == "NOT_A_MEMBER"

AlgArgs == AlgNames \cup {NotAnAlgorithm}

----------------------------------------------------------------------------
(* str.encode(): UTF-8 *)

EncodeChar(c) ==
  IF c < 128 THEN <<c>>
  ELSE IF c < 2048 THEN <<192 + (c \div 64), 128 + (c % 64)>>
  ELSE <<224 + (c \div 4096), 128 + ((c \div 64) % 64), 128 + (c % 64)>>

IsSurrogate(c) == c >= 55296 /\ c <= 57343

RECURSIVE EncodeFrom(_, _)
EncodeFrom(s, i) ==
  IF i > Len(s) THEN <<>> ELSE EncodeChar(s[i]) \o EncodeFrom(s, i + 1)

\* password.encode(): UnicodeEncodeError on a lone surrogate
Encode(s) ==
  IF \E i \in 1..Len(s) : IsSurrogate(s[i])
  THEN [ok |-> FALSE, bytes |-> <<>>]
  ELSE [ok |-> TRUE, bytes |-> EncodeFrom(s, 1)]

----------------------------------------------------------------------------
(* bytes.hex() and bytes.fromhex() *)

HexDigits == <<"0", "1", "2", "3", "4", "5", "6", "7",
               "8", "9", "a", "b", "c", "d", "e", "f">>

UpperHexDigits == <<"A", "B", "C", "D", "E", "F">>

HexVal(c) ==
  IF \E n \in 1..16 : HexDigits[n] = c
  THEN (CHOOSE n \in 1..16 : HexDigits[n] = c) - 1
  ELSE IF \E n \in 1..6 : UpperHexDigits[n] = c
  THEN (CHOOSE n \in 1..6 : UpperHexDigits[n] = c) + 9
  ELSE -1

IsSpace(c) == c = " "

RECURSIVE HexFrom(_, _)
HexFrom(b, i) ==
  IF i > Len(b) THEN <<>>
  ELSE <<HexDigits[(b[i] \div 16) + 1], HexDigits[(b[i] % 16) + 1]>>
       \o HexFrom(b, i + 1)

\* bytes.hex(): two lowercase digits per byte, no separator
Hex(b) == HexFrom(b, 1)

RECURSIVE FromHexFrom(_, _)
FromHexFrom(s, i) ==
  IF i > Len(s) THEN [ok |-> TRUE, bytes |-> <<>>]
  ELSE IF IsSpace(s[i]) THEN FromHexFrom(s, i + 1)
  ELSE IF i + 1 > Len(s) \/ HexVal(s[i]) < 0 \/ HexVal(s[i + 1]) < 0
  THEN [ok |-> FALSE, bytes |-> <<>>]
  ELSE LET rest == FromHexFrom(s, i + 2)
       IN IF rest.ok
          THEN [ok |-> TRUE,
                bytes |-> <<16 * HexVal(s[i]) + HexVal(s[i + 1])>> \o rest.bytes]
          ELSE rest

\* bytes.fromhex(): ASCII whitespace is skipped between bytes, both cases of
\* a..f are accepted, anything else (or half a byte) is a ValueError
FromHex(s) == FromHexFrom(s, 1)

----------------------------------------------------------------------------
(* The six adapters: (password bytes, salt bytes) -> digest bytes, or a     *)
(* failure of the primitive.                                               *)

Digest(b) == [ok |-> TRUE, bytes |-> b]
PrimitiveError == [ok |-> FALSE, bytes |-> <<>>]

\* hashlib.md5(salt + password).digest()
hash_md5(pw, salt) == Digest(<<1>> \o (salt \o pw))

\* hashlib.sha512(salt + password).digest()
hash_sha512(pw, salt) == Digest(<<2>> \o (salt \o pw))

\* HMAC pads its key with zero bytes up to the block size, so trailing zero
\* bytes of the password do not change the derived key
RECURSIVE HmacKey(_)
HmacKey(pw) ==
  IF Len(pw) > 0 /\ pw[Len(pw)] = 0 THEN HmacKey(SubSeq(pw, 1, Len(pw) - 1))
  ELSE pw

\* hashlib.pbkdf2_hmac('sha256', password, salt, 100000)
hash_pbkdf2(pw, salt) == Digest(<<3, Len(salt)>> \o salt \o HmacKey(pw))

\* argon2.low_level.hash_secret rejects a salt shorter than its minimum,
\* which is half the length of a generated salt (8 bytes against 16)
ArgonSaltOk(salt) == 2 * Len(salt) >= SaltLen

\* hash_secret(password, salt, time_cost=2, memory_cost=102400,
\*             parallelism=8, hash_len=32, type=Type.I)
hash_argon2(pw, salt) ==
  IF ArgonSaltOk(salt) THEN Digest(<<4, Len(salt)>> \o salt \o pw)
  ELSE PrimitiveError

\* bcrypt.gensalt(): the "$2b$12$" prefix (here the byte "$") followed by
\* the encoded random part
gensalt(fresh) == <<36>> \o fresh

BcryptSaltOk(salt) == Len(salt) = SaltLen + 1 /\ salt[1] = 36

\* bcrypt.hashpw(password, salt): the salt followed by the hash; ValueError
\* on a salt that is not in gensalt's format
hashpw(pw, salt) ==
  IF BcryptSaltOk(salt) THEN Digest(salt \o (<<5>> \o salt \o pw))
  ELSE PrimitiveError

\* hashed_password_and_metadata[-31:]: the encoding is the 29-byte salt
\* followed by the 31-byte hash, so the slice drops exactly the salt
Last31(encoded) == SubSeq(encoded, SaltLen + 2, Len(encoded))

hash_bcrypt(pw, salt) ==
  LET r == hashpw(pw, salt)
  IN IF r.ok THEN Digest(Last31(r.bytes)) ELSE PrimitiveError

\* hashlib.scrypt(password, salt=salt, n=16384, r=8, p=1)
hash_scrypt(pw, salt) == Digest(<<6, Len(salt)>> \o salt \o pw)

----------------------------------------------------------------------------
(* Auth.get_hashed_password *)

\* the result of a call: a returned pair (hashed_password, salt) or a raised
\* exception.  adapter and bytes_salt record the branch taken and the local
\* variable bytes_salt of the call.
Raised(err, adapter) ==
  [ok |-> FALSE, err |-> err, hashed_password |-> <<>>, salt |-> <<>>,
   adapter |-> adapter, bytes_salt |-> <<>>]

Returned(hashed_password, salt, adapter, bytes_salt) ==
  [ok |-> TRUE, err |-> "", hashed_password |-> hashed_password,
   salt |-> salt, adapter |-> adapter, bytes_salt |-> bytes_salt]

NotCalled == Raised("not called", "")

\* lines 142-147: the salt the call hashes with.  fresh is what the random
\* source delivers when it is asked.
SelectSaltAlwaysFresh(salt, alg, fresh) ==
  IF alg = "BCRYPT" THEN [ok |-> TRUE, bytes |-> gensalt(fresh)]
  ELSE [ok |-> TRUE, bytes |-> fresh]

SelectSalt(salt, alg, fresh) ==
  IF Truthy(salt) THEN FromHex(salt.val)
  ELSE IF alg = "BCRYPT" THEN [ok |-> TRUE, bytes |-> gensalt(fresh)]
  ELSE [ok |-> TRUE, bytes |-> fresh]

\* lines 149-162: the if/elif chain.  When no branch matches,
\* bytes_hashed_password stays None (here the empty digest, equally falsy).
Dispatch(alg, pw, salt) ==
  IF alg = "MD5" THEN [adapter |-> "MD5", r |-> hash_md5(pw, salt)]
  ELSE IF alg = "SHA512" THEN [adapter |-> "SHA512", r |-> hash_sha512(pw, salt)]
  ELSE IF alg = "PBKDF2" THEN [adapter |-> "PBKDF2", r |-> hash_pbkdf2(pw, salt)]
  ELSE IF alg = "ARGON2" THEN [adapter |-> "ARGON2", r |-> hash_argon2(pw, salt)]
  ELSE IF alg = "BCRYPT" THEN [adapter |-> "BCRYPT", r |-> hash_bcrypt(pw, salt)]
  ELSE IF alg = "SCRYPT" THEN [adapter |-> "SCRYPT", r |-> hash_scrypt(pw, salt)]
  ELSE [adapter |-> "", r |-> Digest(<<>>)]

\* lines 164-171: a non-empty digest is returned in hex with the salt in hex,
\* anything else raises
ReturnUnchecked(digest, bytes_salt, adapter) ==
  Returned(Hex(digest), Hex(bytes_salt), adapter, bytes_salt)

ReturnOrRaise(digest, bytes_salt, adapter) ==
  IF Len(digest) > 0
  THEN Returned(Hex(digest), Hex(bytes_salt), adapter, bytes_salt)
  ELSE Raised("Exception", adapter)

get_hashed_password(pw, salt, alg, fresh) ==
  LET enc == Encode(pw)
      sel == SelectSalt(salt, alg, fresh)
      d == Dispatch(alg, enc.bytes, sel.bytes)
  IN IF ~enc.ok THEN Raised("UnicodeEncodeError", "")
     ELSE IF ~sel.ok THEN Raised("ValueError", "")
     ELSE IF ~d.r.ok THEN Raised("HashingError", d.adapter)
     ELSE ReturnOrRaise(d.r.bytes, sel.bytes, d.adapter)

----------------------------------------------------------------------------
(* User rows and the outcome of an operation *)

\* User(username, password, hashing_algorithm, hashed_password, salt)
User(u, pw, algname, hashed, salt) ==
  [username |-> u, password |-> Some(pw), hashing_algorithm |-> algname,
   hashed_password |-> hashed, salt |-> salt]

NullUser ==
  [username |-> "", password |-> None, hashing_algorithm |-> "",
   hashed_password |-> <<>>, salt |-> None]

\* what an operation did: whether it raised, the value it returned
\* (value for a bool, user for a User or None), the adapters it looked up
\* or called (tried), the user row it was given or handed on, and the
\* password it was given
Outcome(op, raised, err, value, user, tried, pw) ==
  [op |-> op, raised |-> raised, err |-> err, value |-> value,
   user |-> user, tried |-> tried, pw |-> pw]

NoOutcome == Outcome("", FALSE, "", FALSE, NullUser, {}, <<>>)

----------------------------------------------------------------------------
(* Auth.attemptLogin and Auth.create_user *)

\* lines 189-194.  HashingAlgorithm[name] is a KeyError for a name that is
\* no member; an exception of get_hashed_password is not caught.
attemptLogin(stored_user, entered, fresh) ==
  IF stored_user.hashing_algorithm \notin AlgNames
  THEN Outcome("attemptLogin", TRUE, "KeyError", FALSE, stored_user, {}, entered)
  ELSE LET r == get_hashed_password(entered, stored_user.salt,
                                    stored_user.hashing_algorithm, fresh)
           tried == IF r.adapter = "" THEN {} ELSE {r.adapter}
       IN IF ~r.ok
          THEN Outcome("attemptLogin", TRUE, r.err, FALSE, stored_user, tried, entered)
          ELSE Outcome("attemptLogin", FALSE, "",
                       r.hashed_password = stored_user.hashed_password,
                       stored_user, tried, entered)

\* lines 211-217.  The bare except turns every exception into a printed
\* message and the implicit return of None.  On success the outcome's user
\* is the User handed to DatabaseConnection.add_user and returned.
create_user(u, pw, alg, fresh) ==
  LET r == get_hashed_password(pw, None, alg, fresh)
  IN IF ~r.ok
     THEN Outcome("create_user", FALSE, r.err, FALSE, NullUser, {}, pw)
     ELSE Outcome("create_user", FALSE, "", TRUE,
                  User(u, pw, alg, r.hashed_password, Some(r.salt)),
                  {r.adapter}, pw)

----------------------------------------------------------------------------
(* The pure hashing core: arguments drawn once, the function applied *)

SaltArgs ==
  {None}
  \cup {Some(s) : s \in SeqUpTo(SaltChars, MaxSaltStr)}
  \cup {Some(Hex(f)) : f \in FreshSalts}
  \cup {Some(Hex(gensalt(f))) : f \in FreshSalts}

SysInit ==
  /\ db = [u \in Usernames |-> NullUser]
  /\ pc = "username"
  /\ username = ""
  /\ password = <<>>
  /\ found_user = NullUser
  /\ choice = <<>>
  /\ ret = NoOutcome

HashInit ==
  /\ h_password \in Passwords
  /\ h_salt \in SaltArgs
  /\ h_alg \in AlgArgs
  /\ h_first = NotCalled
  /\ h_second = NotCalled
  /\ h_login = NoOutcome
  /\ SysInit

Called(r) == r # NotCalled

\* get_hashed_password(h_password, h_salt, h_alg)
HashFirst ==
  /\ ~Called(h_first)
  /\ \E fresh \in FreshSalts :
       h_first' = get_hashed_password(h_password, h_salt, h_alg, fresh)
  /\ UNCHANGED <<h_password, h_salt, h_alg, h_second, h_login>>
  /\ UNCHANGED svars

\* the same call again
HashSecond ==
  /\ Called(h_first)
  /\ ~Called(h_second)
  /\ \E fresh \in FreshSalts :
       h_second' = get_hashed_password(h_password, h_salt, h_alg, fresh)
  /\ UNCHANGED <<h_password, h_salt, h_alg, h_first, h_login>>
  /\ UNCHANGED svars

\* attemptLogin(User(.., h_alg.name, digest, salt), h_password) on the pair
\* the first call returned
VerifyFirst ==
  /\ h_first.ok
  /\ h_login = NoOutcome
  /\ \E fresh \in FreshSalts, u \in Usernames :
       h_login' = attemptLogin(
                    User(u, h_password, h_alg, h_first.hashed_password,
                         Some(h_first.salt)),
                    h_password, fresh)
  /\ UNCHANGED <<h_password, h_salt, h_alg, h_first, h_second>>
  /\ UNCHANGED svars

HashNext == HashFirst \/ HashSecond \/ VerifyFirst

SpecHash == HashInit /\ [][HashNext]_vars

----------------------------------------------------------------------------
(* The program: the user table, the Auth entry points and main() *)

\* rows of the user table that Auth.create_user did not write: an algorithm
\* name outside the enumeration, a salt that is not hex, no salt, and a
\* well-formed row of another origin
ForeignUsers ==
  {User("alice", <<97>>, "WHIRLPOOL", Hex(<<1, 97>>), Some(<<"0", "a">>)),
   User("alice", <<97>>, "MD5", Hex(<<1, 97>>), Some(<<"g", "0">>)),
   User("alice", <<97>>, "SHA512", Hex(<<2, 97>>), None),
   User("alice", <<97>>, "SCRYPT", Hex(<<1, 10, 97>>), Some(<<"0", "a">>))}

StoredUsers == {db[u] : u \in {v \in Usernames : db[v] # NullUser}}

\* Auth.create_user(u, pw, alg) for a username that is not taken.  The
\* program is single-threaded: the Auth entry points are called between
\* the sessions of main(), not in the middle of one.
CallCreateUser ==
  \E u \in Usernames, pw \in Passwords, alg \in AlgArgs, fresh \in FreshSalts :
    /\ pc = "username"
    /\ db[u] = NullUser
    /\ LET o == create_user(u, pw, alg, fresh)
       IN /\ ret' = o
          /\ db' = IF o.value THEN [db EXCEPT ![u] = o.user] ELSE db
    /\ UNCHANGED <<pc, username, password, found_user, choice>>
    /\ UNCHANGED hvars

\* Auth.attemptLogin(stored_user, entered_password)
CallAttemptLogin ==
  \E stored_user \in StoredUsers \cup ForeignUsers, entered \in Passwords,
     fresh \in FreshSalts :
    /\ pc = "username"
    /\ ret' = attemptLogin(stored_user, entered, fresh)
    /\ UNCHANGED <<db, pc, username, password, found_user, choice>>
    /\ UNCHANGED hvars

\* the attributes of the class object Auth: the three public static methods
\* and the six private ones under their mangled names
AuthAttributes ==
  {"get_hashed_password", "attemptLogin", "create_user",
   "_Auth__hash_md5", "_Auth__hash_sha512", "_Auth__hash_pbkdf2",
   "_Auth__hash_argon2", "_Auth__hash_bcrypt", "_Auth__hash_scrypt"}

\* the attribute main.py looks up on Auth for each algorithm
MainAdapterName(alg) ==
  IF alg = "MD5" THEN "hash_md5"
  ELSE IF alg = "SHA512" THEN "hash_sha512"
  ELSE IF alg = "PBKDF2" THEN "hash_pbkdf2"
  ELSE IF alg = "ARGON2" THEN "hash_argon2"
  ELSE IF alg = "BCRYPT" THEN "hash_bcrypt"
  ELSE "hash_scrypt"

\* main.py lines 36-38: the first operand of the `or` chain is evaluated
\* first; it looks up Auth.hash_md5 whatever found_user.hashing_algorithm
\* is.  The lookup is an AttributeError, so neither branch of the if runs.
\* No hash_md5, hash_sha512 or hash_pbkdf2 is defined in src/, so what the
\* comparison would give is not modelled: only the three lookups it names.
main_verify(found, pw) ==
  IF MainAdapterName("MD5") \notin AuthAttributes
  THEN Outcome("main_login", TRUE, "AttributeError", FALSE, found, {"MD5"}, pw)
  ELSE Outcome("main_login", FALSE, "", FALSE, found,
               {"MD5", "SHA512", "PBKDF2"}, pw)

\* main.py lines 121-155: every branch starts with a lookup of
\* Auth.hash_<algorithm>; with no branch taken line 155 raises
main_get_hashed_password(pw, alg) ==
  IF alg \in AlgNames /\ MainAdapterName(alg) \notin AuthAttributes
  THEN Outcome("main_register", TRUE, "AttributeError", FALSE, NullUser, {alg}, pw)
  ELSE Outcome("main_register", TRUE, "Exception", FALSE, NullUser, {}, pw)

\* str.isdigit(): non-empty and every character a digit; SUPERSCRIPT TWO
\* is a digit
IsDigitChar(c) == c \in {"0", "3", "7", "2s"}
isdigit(s) == Len(s) > 0 /\ \A i \in 1..Len(s) : IsDigitChar(s[i])

\* int(): only decimal digits convert
IsDecimalChar(c) == c \in {"0", "3", "7"}
DecimalVal(c) == IF c = "0" THEN 0 ELSE IF c = "3" THEN 3 ELSE 7

RECURSIVE IntOf(_, _)
IntOf(s, n) ==
  IF n = 0 THEN 0 ELSE 10 * IntOf(s, n - 1) + DecimalVal(s[n])

IntOk(s) == Len(s) > 0 /\ \A i \in 1..Len(s) : IsDecimalChar(s[i])
int(s) == IntOf(s, Len(s))

\* main.py lines 114-119, one pass of the loop on the input c:
\* "invalid" prints and prompts again, "raise" is the ValueError of int(),
\* "return" returns HashingAlgorithm(int(choice))
get_algorithm_user_choice(c) ==
  IF ~isdigit(c) THEN [kind |-> "invalid", alg |-> ""]
  ELSE IF ~IntOk(c) THEN [kind |-> "raise", alg |-> ""]
  ELSE IF int(c) > Len(AlgByValue) \/ int(c) < 1
  THEN [kind |-> "invalid", alg |-> ""]
  ELSE [kind |-> "return", alg |-> AlgByValue[int(c)]]

\* lines 23-33 and 44-47: the username is read, the row looked up; for an
\* existing row the salt is decoded before the password prompt
MainEnterUsername ==
  \E u \in Usernames :
    /\ pc = "username"
    /\ username' = u
    /\ found_user' = db[u]
    /\ IF db[u] = NullUser
       THEN /\ pc' = "new_password"
            /\ ret' = NoOutcome
       ELSE IF db[u].salt.some /\ FromHex(db[u].salt.val).ok
       THEN /\ pc' = "login_password"
            /\ ret' = NoOutcome
       ELSE /\ pc' = "crashed"
            /\ ret' = Outcome("main_login", TRUE,
                              IF db[u].salt.some THEN "ValueError" ELSE "TypeError",
                              FALSE, db[u], {}, <<>>)
    /\ UNCHANGED <<db, password, choice>>
    /\ UNCHANGED hvars

\* lines 33-42: the password is read and checked
MainEnterLoginPassword ==
  \E pw \in Passwords :
    /\ pc = "login_password"
    /\ password' = pw
    /\ LET o == main_verify(found_user, pw)
       IN /\ ret' = o
          /\ pc' = IF o.raised THEN "crashed"
                   ELSE IF o.value THEN "menu" ELSE "username"
    /\ UNCHANGED <<db, username, found_user, choice>>
    /\ UNCHANGED hvars

\* line 47: the password of the new account is read
MainEnterNewPassword ==
  \E pw \in Passwords :
    /\ pc = "new_password"
    /\ password' = pw
    /\ pc' = "choose_algorithm"
    /\ ret' = NoOutcome
    /\ UNCHANGED <<db, username, found_user, choice>>
    /\ UNCHANGED hvars

\* lines 49-50 with 105-119: a menu choice is read; a valid one returns to
\* line 50, which calls main.py's get_hashed_password
MainEnterChoice ==
  \E c \in Choices :
    /\ pc = "choose_algorithm"
    /\ choice' = c
    /\ LET g == get_algorithm_user_choice(c)
       IN IF g.kind = "invalid"
          THEN /\ pc' = "choose_algorithm"
               /\ ret' = Outcome("choice", FALSE, "Invalid choice", FALSE,
                                 NullUser, {}, password)
          ELSE IF g.kind = "raise"
          THEN /\ pc' = "crashed"
               /\ ret' = Outcome("choice", TRUE, "ValueError", FALSE,
                                 NullUser, {}, password)
          ELSE /\ pc' = "crashed"
               /\ ret' = main_get_hashed_password(password, g.alg)
    /\ UNCHANGED <<db, username, password, found_user>>
    /\ UNCHANGED hvars

\* the program is started again after an uncaught exception ended it; the
\* user table is kept
MainRestart ==
  /\ pc = "crashed"
  /\ pc' = "username"
  /\ username' = ""
  /\ password' = <<>>
  /\ found_user' = NullUser
  /\ choice' = <<>>
  /\ ret' = NoOutcome
  /\ UNCHANGED db
  /\ UNCHANGED hvars

Init ==
  /\ h_password = <<>>
  /\ h_salt = None
  /\ h_alg = NotAnAlgorithm
  /\ h_first = NotCalled
  /\ h_second = NotCalled
  /\ h_login = NoOutcome
  /\ SysInit

Next ==
  \/ CallCreateUser
  \/ CallAttemptLogin
  \/ MainEnterUsername
  \/ MainEnterLoginPassword
  \/ MainEnterNewPassword
  \/ MainEnterChoice
  \/ MainRestart

Spec == Init /\ [][Next]_vars

----------------------------------------------------------------------------
(* Properties of the hashing core, checked under SpecHash *)

\* the digest the recorded algorithm gives for pw and the salt that the hex
\* string salt decodes to, in hex
DigestOf(alg, pw, salt) ==
  Hex(Dispatch(alg, Encode(pw).bytes, FromHex(salt).bytes).r.bytes)

\* C1: round trip.  For each of the six algorithms and every password, when
\* get_hashed_password(P, None, A) returns, attemptLogin on the record
\* (A.name, returned digest, returned salt) with P returns True and does
\* not raise.
C1_RoundTrip ==
  (h_salt = None /\ h_alg \in AlgNames /\ h_first.ok /\ h_login # NoOutcome)
    => (~h_login.raised /\ h_login.value)

\* C1 witness: a bcrypt record made with a generated salt was verified with
\* its own non-empty password and accepted
C1_Witness ==
  /\ h_salt = None
  /\ h_alg = "BCRYPT"
  /\ Len(h_password) > 0
  /\ h_first.ok
  /\ h_login.op = "attemptLogin"
  /\ h_login.value

\* C5: no partially-populated result.  Every call either returns a
\* non-empty hex digest together with the hex of the salt it hashed with
\* (the digest is the recorded algorithm's digest for that salt), or raises
\* and returns nothing; an algorithm value that matches no branch raises.
C5_NoPartialResult ==
  \A r \in {h_first, h_second} :
    Called(r) =>
      /\ r.ok => /\ Len(r.hashed_password) > 0
                 /\ FromHex(r.salt) = [ok |-> TRUE, bytes |-> r.bytes_salt]
                 /\ r.hashed_password = DigestOf(h_alg, h_password, r.salt)
      /\ ~r.ok => (r.hashed_password = <<>> /\ r.salt = <<>> /\ r.err # "")
      /\ h_alg \notin AlgNames => ~r.ok

\* C5 witness: a call with an algorithm value outside the enumeration and an
\* encodable password ended in the Exception of line 171
C5_Witness ==
  /\ h_alg = NotAnAlgorithm
  /\ Called(h_first)
  /\ ~h_first.ok
  /\ h_first.err = "Exception"

\* C3 as claimed: whenever a salt other than None is supplied it is used
\* verbatim (the returned salt decodes to the supplied one) and two calls
\* with the same arguments return the same digest.
C3_SuppliedSaltVerbatim ==
  (h_salt.some /\ h_first.ok) =>
    /\ FromHex(h_first.salt).bytes = FromHex(h_salt.val).bytes
    /\ h_second.ok => h_second.hashed_password = h_first.hashed_password

\* what holds instead: a supplied salt that is not the empty string is used
\* verbatim and makes the call deterministic
TruthySaltVerbatim ==
  (Truthy(h_salt) /\ h_first.ok) =>
    /\ FromHex(h_first.salt).bytes = FromHex(h_salt.val).bytes
    /\ Called(h_second) => h_second = h_first

----------------------------------------------------------------------------
(* Properties of the program, checked under Spec *)

\* C2 as claimed: attemptLogin never raises; every failure becomes False.
C2_AttemptLoginNeverRaises ==
  ret.op = "attemptLogin" => ~ret.raised

\* C4 as claimed: no User row handed to the persistence layer carries the
\* plaintext password.
C4_PlaintextNeverPersisted ==
  \A u \in Usernames : db[u] # NullUser => db[u].password = None

\* C6 as claimed: a login verification looks up or calls the adapter of the
\* stored row's own algorithm and no other.
C6_OnlyRecordedAlgorithm ==
  ret.op \in {"attemptLogin", "main_login"}
    => ret.tried \subseteq {ret.user.hashing_algorithm}

\* C7 as claimed: when get_hashed_password fails inside create_user, the
\* caller of create_user receives the failure.
C7_CreateUserSurfacesFailure ==
  (ret.op = "create_user" /\ ret.err # "") => ret.raised

\* a menu input that denotes an integer in 1..6
ChoiceInRange(c) == IntOk(c) /\ int(c) >= 1 /\ int(c) <= 6

\* C8 as claimed: every menu input that is not an integer in 1..6 is
\* reported as an invalid choice and prompted for again, with no algorithm
\* returned and no adapter looked up.
C8_OutOfRangeChoiceRejected ==
  (ret.op \in {"choice", "main_register"} /\ ~ChoiceInRange(choice))
    => /\ ret.op = "choice"
       /\ ~ret.raised
       /\ ret.err = "Invalid choice"
       /\ ret.tried = {}
       /\ pc = "choose_algorithm"

\* what holds of the menu: an adapter is looked up only for an input that
\* denotes an integer in 1..6
NoAdapterForOutOfRangeChoice ==
  (ret.op \in {"choice", "main_register"} /\ ~ChoiceInRange(choice))
    => (ret.op = "choice" /\ ret.tried = {})

\* C9 as claimed: once main() has taken the password and the algorithm of a
\* registration, the stored row of the user holds the digest of the current
\* password under the recorded algorithm and salt, and a login with the
\* current password is accepted.
C9_StoredCredentialVerifies ==
  ret.op = "main_register" =>
    /\ username \in Usernames
    /\ db[username] # NullUser
    /\ db[username].salt.some
    /\ db[username].hashed_password
         = DigestOf(db[username].hashing_algorithm, password,
                    db[username].salt.val)
    /\ \A fresh \in FreshSalts :
         attemptLogin(db[username], password, fresh).value

\* the password given to a login check is not the one the stored row verifies
WrongPassword(o) ==
  \A fresh \in FreshSalts : ~attemptLogin(o.user, o.pw, fresh).value

\* C10 as claimed: the logged-in menu is reached only after a successful
\* password check or the creation of an account, and a password check that
\* fails (a wrong password for an existing username) returns to the
\* username prompt.
C10_SessionGating ==
  /\ pc = "menu" => \/ (ret.op = "main_login" /\ ret.value)
                    \/ (ret.op = "main_register" /\ ~ret.raised)
  /\ (ret.op = "main_login" /\ WrongPassword(ret)) => pc = "username"

\* what holds of main(): the logged-in menu of lines 58-97 is never reached
InnerLoopUnreachable == pc # "menu"

\* what holds of main(): a session of main() never writes to the user table
MainNeverWrites == [][pc # "username" => db' = db]_vars

=============================================================================
